---- MODULE Spec2Model ----
(***************************************************************************)
(* State-machine model of scrape_and_store.py: a crawler that reads the    *)
(* stored records of output/data.json, fetches pages of posts from a JSON  *)
(* API with bounded retry, normalises each post body into one string,      *)
(* merges the crawled records into the stored ones and writes the file     *)
(* back.                                                                   *)
(*                                                                         *)
(* Text is a sequence of one-character strings while it is being worked on *)
(* (strip, replace) and a string once it is stored in a record.            *)
(* A Python value that may be None is a record [kind, data]: kind "none"   *)
(* is None (JSON null once written to the file), kind "array" is a list.   *)
(***************************************************************************)
EXTENDS Integers, Sequences, FiniteSets, TLC

(* ------------------------------ bounds --------------------------------- *)

\* Largest page count typed at the prompt as a valid integer.
MaxTyped == 2

\* Most records one run of get_data assembles over all its pages.
MaxCrawl == 2

\* Most records in the file before the first run.
MaxFile == 1

\* Runs of main in one behaviour.
MaxRuns == 2

\* Most data rows of a table given to parse_content.
MaxRows == 2

(* ----------------------------- text helpers ---------------------------- *)

RECURSIVE Str(_)
\* The string spelled by a sequence of characters.
Str(cs) == IF cs = <<>> THEN "" ELSE Head(cs) \o Str(Tail(cs))

\* The characters without a TLA+ escape that str.isspace() holds for, among
\* those a module can spell (code points up to 255; the whitespace beyond,
\* U+1680, U+2000..U+200A, U+2028, U+2029, U+202F, U+205F and U+3000, cannot
\* be written in a string here). Each string holds the one character named.
VT == ""
FS == ""
GS == ""
RS == ""
US == ""
NEL == ""
NBSP == " "

\* str.isspace() of one character: what str.strip() with no argument removes
\* from both ends and what str.split() with no argument splits at.
IsSpace(c) == c \in {" ", "\n", "\t", "\r", "\f", VT, FS, GS, RS, US, NEL, NBSP}

RECURSIVE lstrip(_)
lstrip(cs) ==
    IF cs = <<>> THEN <<>>
    ELSE IF IsSpace(Head(cs)) THEN lstrip(Tail(cs)) ELSE cs

RECURSIVE rstrip(_)
rstrip(cs) ==
    IF cs = <<>> THEN <<>>
    ELSE IF IsSpace(cs[Len(cs)]) THEN rstrip(SubSeq(cs, 1, Len(cs) - 1)) ELSE cs

strip(cs) == rstrip(lstrip(cs))

\* s.replace("\n", " ")
replace_newlines(cs) == [k \in 1..Len(cs) |-> IF cs[k] = "\n" THEN " " ELSE cs[k]]

RECURSIVE Flatten(_)
\* Concatenation of a sequence of sequences.
Flatten(ss) == IF ss = <<>> THEN <<>> ELSE Head(ss) \o Flatten(Tail(ss))

RECURSIVE JoinWith(_, _)
\* sep.join(parts) on character sequences.
JoinWith(sep, parts) ==
    IF parts = <<>> THEN <<>>
    ELSE IF Len(parts) = 1 THEN Head(parts)
    ELSE Head(parts) \o sep \o JoinWith(sep, Tail(parts))

Range(s) == {s[k] : k \in 1..Len(s)}

\* A list holds no two equal elements.
NoDuplicates(s) == \A a, b \in 1..Len(s) : s[a] = s[b] => a = b

\* Python's `item in lst`.
Contains(lst, item) == \E k \in 1..Len(lst) : lst[k] = item

None == [kind |-> "none", data |-> <<>>]
List(s) == [kind |-> "array", data |-> s]

\* Python truthiness of None or a list: `if existing_data:`.
Truthy(v) == v.kind = "array" /\ v.data # <<>>
(* ------------------------ int(input(...)) ------------------------------ *)

Digits == <<"0", "1", "2", "3", "4", "5", "6", "7", "8", "9">>

IsDigit(c) == \E k \in 1..10 : Digits[k] = c

DigitValue(c) == (CHOOSE k \in 1..10 : Digits[k] = c) - 1

\* The literal without its sign.
Unsigned(cs) == IF cs # <<>> /\ Head(cs) \in {"+", "-"} THEN Tail(cs) ELSE cs

\* Digits, with single underscores allowed between two digits.
IsDigitBody(cs) ==
    /\ cs # <<>>
    /\ IsDigit(cs[1])
    /\ IsDigit(cs[Len(cs)])
    /\ \A k \in 1..Len(cs) : IsDigit(cs[k]) \/ cs[k] = "_"
    /\ \A k \in 1..(Len(cs) - 1) : ~(cs[k] = "_" /\ cs[k + 1] = "_")

\* The whitespace int() ignores around a literal: of the characters of
\* IsSpace, not the four separators FS, GS, RS, US.
IsIntSpace(c) == c \in {" ", "\n", "\t", "\r", "\f", VT, NEL, NBSP}

RECURSIVE int_lstrip(_)
int_lstrip(cs) ==
    IF cs = <<>> THEN <<>>
    ELSE IF IsIntSpace(Head(cs)) THEN int_lstrip(Tail(cs)) ELSE cs

RECURSIVE int_rstrip(_)
int_rstrip(cs) ==
    IF cs = <<>> THEN <<>>
    ELSE IF IsIntSpace(cs[Len(cs)]) THEN int_rstrip(SubSeq(cs, 1, Len(cs) - 1)) ELSE cs

\* The literal int() parses once the whitespace around it is set aside.
int_strip(cs) == int_rstrip(int_lstrip(cs))

\* sys.int_info.default_max_str_digits: int() raises ValueError for a
\* literal of more digits.
max_str_digits == 4300

\* int(s) does not raise ValueError: surrounding whitespace is ignored, then
\* an optional sign and a body of decimal digits (of the characters a module
\* can spell, the decimal digits are "0".."9").
IsIntLiteral(cs) ==
    /\ IsDigitBody(Unsigned(int_strip(cs)))
    /\ Len(SelectSeq(Unsigned(int_strip(cs)), IsDigit)) <= max_str_digits

RECURSIVE DigitsValue(_, _)
DigitsValue(cs, acc) ==
    IF cs = <<>> THEN acc
    ELSE IF Head(cs) = "_" THEN DigitsValue(Tail(cs), acc)
    ELSE DigitsValue(Tail(cs), 10 * acc + DigitValue(Head(cs)))

\* int(s) for a string int accepts.
IntValue(cs) ==
    LET t == int_strip(cs)
        v == DigitsValue(Unsigned(t), 0)
    IN IF Head(t) = "-" THEN 0 - v ELSE v

\* What the prompt delivers: a typed line, or end of input (input() raises
\* EOFError).
Typed(cs) == [eof |-> FALSE, text |-> cs]
EndOfInput == [eof |-> TRUE, text |-> <<>>]

\* A default one page short.
default_pages_short == 5 - 1

default_pages == 5

\* get_data's page count: int(input(...)), and 5 when that raises anything.
numbers_of_pages_of(inp) ==
    IF ~inp.eof /\ IsIntLiteral(inp.text) THEN IntValue(inp.text) ELSE default_pages

(* --------------------------- compare_data ------------------------------ *)

RECURSIVE compare_data_new_only(_, _)
\* A merge that collects the new items in a fresh list and returns that list.
compare_data_new_only(existing, crawled) ==
    IF crawled = <<>> THEN <<>>
    ELSE LET rest == compare_data_new_only(Append(existing, Head(crawled)), Tail(crawled))
         IN IF Contains(existing, Head(crawled)) THEN rest ELSE <<Head(crawled)>> \o rest

RECURSIVE compare_data_insert_first(_, _)
\* A merge that puts each new item at the head of the list.
compare_data_insert_first(existing, crawled) ==
    IF crawled = <<>> THEN existing
    ELSE compare_data_insert_first(IF Contains(existing, Head(crawled))
                                   THEN existing
                                   ELSE <<Head(crawled)>> \o existing,
                                   Tail(crawled))

\* A merge that tests each item against the list as it was passed in.
compare_data_against_original(existing, crawled) ==
    existing \o SelectSeq(crawled, LAMBDA item : ~Contains(existing, item))

\* A merge without the membership test.
compare_data_append_all(existing, crawled) == existing \o crawled

RECURSIVE compare_data(_, _)
\* Appends to existing_data, in order, each item of crawled_data that the list
\* (as grown so far) does not hold, and returns it.
compare_data(existing, crawled) ==
    IF crawled = <<>> THEN existing
    ELSE compare_data(IF Contains(existing, Head(crawled))
                      THEN existing
                      ELSE Append(existing, Head(crawled)),
                      Tail(crawled))
(* --------------------------- parse_content ----------------------------- *)
(* A post body is given by what the HTML parsers make of it:               *)
(*   tables : the tables pd.read_html finds, each [header, rows], a cell   *)
(*            or label being [str, text] (str is FALSE when pandas read it *)
(*            as a number or a missing value);                             *)
(*   text   : soup.text once the first table's content is cleared.         *)

Cell(cs) == [str |-> TRUE, text |-> cs]
NonText(cs) == [str |-> FALSE, text |-> cs]

\* DataFrame.to_dict(): one entry per column, in column order, each holding
\* the column's cells in row order.
to_dict(table) ==
    [c \in 1..Len(table.header) |->
        [label |-> table.header[c],
         cells |-> [r \in 1..Len(table.rows) |-> table.rows[r][c]]]]

\* str(Heading(text, 1))
HeadingText(cs) == <<"#", " ">> \o cs

RECURSIVE split(_)
\* str.split() with no argument: the runs of characters that are no
\* whitespace, in order.
split(cs) ==
    LET t == lstrip(cs)
        n == IF \E k \in 1..Len(t) : IsSpace(t[k])
             THEN (CHOOSE k \in 1..Len(t) :
                      IsSpace(t[k]) /\ \A j \in 1..(k - 1) : ~IsSpace(t[j])) - 1
             ELSE Len(t)
    IN IF t = <<>> THEN <<>>
       ELSE <<SubSeq(t, 1, n)>> \o split(SubSeq(t, n + 1, Len(t)))

\* str(Paragraph([Inline(text)])), which is how an MDList holds an Inline
\* item: " ".join(text.split()).
ParagraphText(cs) == JoinWith(<<" ">>, split(cs))

\* str(MDList(items)): one "- item" line per item.
MDListText(items) ==
    JoinWith(<<"\n">>, [k \in 1..Len(items) |-> <<"-", " ">> \o ParagraphText(items[k])])

\* The items of the list block added after column c: `content` is never
\* emptied, so it holds the stripped cells of columns 1..c (MDList builds
\* its own list from the items it is given, so a block keeps what `content`
\* held when the block was made).
ContentUpTo(columns, c) ==
    Flatten([k \in 1..c |->
        [r \in 1..Len(columns[k].cells) |-> strip(columns[k].cells[r].text)]])

\* A heading taken from the last key.
heading_of_last(columns) == columns[Len(columns)].label

\* heading = list(html_table.keys())[0]
heading_of(columns) == columns[1].label

\* The try block raises: no table, no column, a heading that is no string,
\* or a cell without .strip().
TableFails(raw) ==
    \/ raw.tables = <<>>
    \/ LET columns == to_dict(raw.tables[1])
       IN \/ columns = <<>>
          \/ ~heading_of(columns).str
          \/ \E c \in 1..Len(columns) :
                \E r \in 1..Len(columns[c].cells) : ~columns[c].cells[r].str

\* str(doc): the heading and the list blocks, separated by blank lines.
DocText(raw) ==
    LET columns == to_dict(raw.tables[1])
    IN JoinWith(<<"\n", "\n">>,
                <<HeadingText(heading_of(columns).text)>> \o
                [c \in 1..Len(columns) |-> MDListText(ContentUpTo(columns, c))])

\* A try block that extends final_result as the document grows: when a cell
\* raises, the heading is already there.
TablePrefix_partial(raw) ==
    IF raw.tables = <<>> THEN <<>>
    ELSE IF to_dict(raw.tables[1]) = <<>> THEN <<>>
    ELSE IF ~heading_of(to_dict(raw.tables[1])).str THEN <<>>
    ELSE IF TableFails(raw) THEN HeadingText(heading_of(to_dict(raw.tables[1])).text)
    ELSE replace_newlines(DocText(raw))

\* The table rendering on one line, or nothing when the try block raised
\* (final_result is only extended by the block's last statement).
TablePrefix(raw) == IF TableFails(raw) THEN <<>> ELSE replace_newlines(DocText(raw))

\* soup.text.strip() with its line breaks replaced.
cleaned_text(raw) == replace_newlines(strip(raw.text))

parse_content(raw) == Str(TablePrefix(raw) \o cleaned_text(raw))

\* The inputs of parse_content: tables of one or two columns; the first
\* column is labelled D or, without a header row, numbered 0, the second E.
ColumnLabels == <<"D", "E">>

MaxCols == Len(ColumnLabels)

Headers(c) ==
    {[k \in 1..c |-> IF k = 1 THEN first ELSE Cell(<<ColumnLabels[k]>>)] :
        first \in {Cell(<<"D">>), NonText(<<"0">>)}}

CellPool == {Cell(<<"a">>), Cell(<<NBSP, "b", "\t", "c", " ">>), NonText(<<"7">>)}

Tables ==
    UNION {{[header |-> h, rows |-> rows] :
               h \in Headers(c), rows \in [1..r -> [1..c -> CellPool]]} :
           c \in 1..MaxCols, r \in 0..MaxRows}

Texts == {<<>>, <<"t">>, <<" ", "t", "\n", "u", "\n">>, <<NBSP, "t", VT, "u", VT>>}

RawContents ==
    {[tables |-> ts, text |-> t] : ts \in {<<>>} \cup {<<tb>> : tb \in Tables}, t \in Texts}
(* ------------------------------ the API -------------------------------- *)

NoTable(cs) == [tables |-> <<>>, text |-> cs]

OneColumnTable == [header |-> <<Cell(<<"D">>)>>, rows |-> << <<Cell(<<"1", " ">>)>> >>]

\* The posts the API may serve: post['title']['rendered'] and the parsed
\* post['content']['rendered'].
PostA1 == [title |-> "A", content |-> NoTable(<<"x">>)]
PostA2 == [title |-> "A", content |-> NoTable(<<" ", "x", "\n">>)]
PostA3 == [title |-> "A", content |-> [tables |-> <<OneColumnTable>>, text |-> <<"y">>]]
PostB == [title |-> "B", content |-> NoTable(<<"x">>)]

Posts == {PostA1, PostA2, PostA3, PostB}

\* The dict get_data builds for one post.
record_of(post) == [title |-> post.title, content |-> parse_content(post.content)]

Records == {record_of(p) : p \in Posts}

\* Sequences over S of length at most n.
SeqUpTo(S, n) == UNION {[1..k -> S] : k \in 0..n}

\* One attempt of requests.get: it raises RequestException, or it returns a
\* response with a status code and a body; json is FALSE for a body that
\* response.json() or the post loop cannot read as a list of posts.
Raised == [none |-> FALSE, exc |-> TRUE, status_code |-> 0, json |-> FALSE, posts |-> <<>>]
Response(code, isJson, posts) ==
    [none |-> FALSE, exc |-> FALSE, status_code |-> code, json |-> isJson, posts |-> posts]

\* get_response's `return None`.
NoResponse == [none |-> TRUE, exc |-> FALSE, status_code |-> 0, json |-> FALSE, posts |-> <<>>]

retryable_codes == {301, 302, 403, 404, 500, 503, 504}

\* Attempts that end without status 200: an exception, a status of the
\* retry list, a status outside it.
Failures == {Raised, Response(503, FALSE, <<>>), Response(400, FALSE, <<>>)}

\* Attempts that end with status 200, when the crawl may still add `room`
\* records: an unreadable body, or a list of posts.
Successes(room) ==
    {Response(200, FALSE, <<>>)} \cup {Response(200, TRUE, ps) : ps \in SeqUpTo(Posts, room)}

\* Page counts typed as a plain number.
TypedCounts == {Typed(<<Digits[n + 1]>>) : n \in 0..MaxTyped}

\* What the prompt may deliver.
Inputs ==
    TypedCounts
    \cup {Typed(<<>>), Typed(<<"a">>), Typed(<<"-", "1">>), Typed(<<VT, "1", NBSP>>),
          Typed(<<FS, "1">>),
          EndOfInput}

(* ------------------------------ the file ------------------------------- *)

Absent == [kind |-> "absent", data |-> <<>>]

\* json.dump(data): None is written as null, a list as an array.
json_dump(data) ==
    IF data.kind = "none" THEN [kind |-> "null", data |-> <<>>]
    ELSE [kind |-> "array", data |-> data.data]

\* read_json_file(): None when the file does not exist, else json.load of it.
read_json_file(f) ==
    IF f.kind = "absent" THEN None
    ELSE IF f.kind = "null" THEN None
    ELSE List(f.data)

\* Files before the first run: no file, or an array without duplicates.
InitFiles ==
    {Absent} \cup {json_dump(List(s)) : s \in {t \in SeqUpTo(Records, MaxFile) : NoDuplicates(t)}}
(* --------------------------- the state machine ------------------------- *)

VARIABLES
    pc,               \* where main stands
    run,              \* number of the current run of main
    file,             \* output/data.json
    file_at_start,    \* the file as the current run found it
    existing_data,    \* main: result of read_json_file()
    crawled_data,     \* main: result of get_data()
    final_output,     \* the argument of save_to_json
    user_input,       \* what the prompt delivered
    numbers_of_pages, \* get_data
    i,                \* get_data: page index
    FINAL_DATA,       \* get_data
    outcomes,         \* get_response: the attempts of the current call, in order
    response,         \* get_data: what get_response returned
    calls,            \* offsets of the calls of get_response in this run, in order
    failed_page,      \* page index at which get_response returned None, or -1
    log,              \* kinds of log lines written in this run
    saves,            \* calls of save_to_json in this run
    raw_content,      \* parse_content: its argument
    final_result,     \* parse_content: the characters of final_result
    raised            \* exception that left main, or "none"

vars == <<pc, run, file, file_at_start, existing_data, crawled_data, final_output,
          user_input, numbers_of_pages, i, FINAL_DATA, outcomes, response, calls,
          failed_page, log, saves, raw_content, final_result, raised>>

parse_vars == <<raw_content, final_result>>

main_vars == <<existing_data, crawled_data, final_output, saves, raised>>
crawl_vars == <<user_input, numbers_of_pages, i, FINAL_DATA, outcomes, response,
                calls, failed_page>>

NoInput == Typed(<<>>)

Init ==
    /\ pc = "read"
    /\ run = 1
    /\ file \in InitFiles
    /\ file_at_start = file
    /\ existing_data = None
    /\ crawled_data = None
    /\ final_output = None
    /\ user_input = NoInput
    /\ numbers_of_pages = 0
    /\ i = 0
    /\ FINAL_DATA = <<>>
    /\ outcomes = <<>>
    /\ response = NoResponse
    /\ calls = <<>>
    /\ failed_page = -1
    /\ log = {}
    /\ saves = 0
    /\ raw_content = [tables |-> <<>>, text |-> <<>>]
    /\ final_result = <<>>
    /\ raised = "none"

\* main: existing_data = read_json_file()
ReadJsonFile ==
    /\ pc = "read"
    /\ existing_data' = read_json_file(file)
    /\ pc' = "prompt"
    /\ UNCHANGED <<parse_vars, run, file, file_at_start, crawled_data, final_output, saves, raised,
                   crawl_vars, log>>

\* get_data: FINAL_DATA = [] and the page-count prompt.
Prompt(inputs) ==
    /\ pc = "prompt"
    /\ \E inp \in inputs :
          /\ user_input' = inp
          /\ numbers_of_pages' = numbers_of_pages_of(inp)
    /\ FINAL_DATA' = <<>>
    /\ i' = 0
    /\ pc' = "loop"
    /\ UNCHANGED <<parse_vars, run, file, file_at_start, main_vars, outcomes, response, calls,
                   failed_page, log>>

\* The offset of page index k.
offset_of(k) == k * 10

\* get_data: the next iteration of `for i in range(numbers_of_pages)` calls
\* get_response(api_url).
CallGetResponse ==
    /\ pc = "loop"
    /\ i < numbers_of_pages
    /\ calls' = Append(calls, offset_of(i))
    /\ outcomes' = <<>>
    /\ pc' = "get"
    /\ UNCHANGED <<parse_vars, run, file, file_at_start, main_vars, user_input, numbers_of_pages, i,
                   FINAL_DATA, response, failed_page, log>>

\* A loop that runs once too often.
max_retries_one_more == 3 + 1

max_retries == 3

\* A test that returns whatever response arrived.
IsSuccess_any_response(o) == ~o.exc

\* A test that returns every response whose status is not in the retry list.
IsSuccess_unlisted_status(o) == ~o.exc /\ o.status_code \notin retryable_codes

\* get_response returns the response of this attempt.
IsSuccess(o) == ~o.exc /\ o.status_code = 200

\* The log line of an attempt that does not return.
AttemptLog(o) ==
    IF o.exc THEN {"error: RequestException"}
    ELSE IF o.status_code \in retryable_codes THEN {"warning: Received status code"}
    ELSE {}

\* get_response: one pass of `for _ in range(max_retries)`.
Attempt(failures) ==
    /\ pc = "get"
    /\ Len(outcomes) < max_retries
    /\ \E o \in failures \cup Successes(MaxCrawl - Len(FINAL_DATA)) :
          /\ outcomes' = Append(outcomes, o)
          /\ IF IsSuccess(o)
             THEN /\ response' = o
                  /\ pc' = "page"
                  /\ log' = log
             ELSE /\ response' = response
                  /\ pc' = "get"
                  /\ log' = log \cup AttemptLog(o)
    /\ UNCHANGED <<parse_vars, run, file, file_at_start, main_vars, user_input, numbers_of_pages, i,
                   FINAL_DATA, calls, failed_page>>

\* get_response: the loop ended without a return.
GiveUp ==
    /\ pc = "get"
    /\ Len(outcomes) >= max_retries
    /\ response' = NoResponse
    /\ log' = log \cup {"error: Failed to get a successful response"}
    /\ pc' = "page"
    /\ UNCHANGED <<parse_vars, run, file, file_at_start, main_vars, user_input, numbers_of_pages, i,
                   FINAL_DATA, outcomes, calls, failed_page>>

\* A value of get_response is None.
IsNone(v) == v.none

\* An except clause that returns what was assembled so far.
get_data_returns_partial(final) == List(final)

\* What get_data returns when its except clause ran: the function falls off
\* its end.
get_data_on_exception(final) == None

\* get_data: the rest of the loop body for a response that is None
\* (response.status_code raises) or whose body is no list of posts.
PageFails ==
    /\ pc = "page"
    /\ IsNone(response) \/ ~response.json
    /\ failed_page' = IF IsNone(response) THEN i ELSE failed_page
    /\ log' = log \cup (IF IsNone(response) THEN {} ELSE {"success: status_code"})
                  \cup {"error: IN GET_DATA"}
    /\ crawled_data' = get_data_on_exception(FINAL_DATA)
    /\ pc' = "branch"
    /\ UNCHANGED <<parse_vars, run, file, file_at_start, existing_data, final_output, saves, raised,
                   user_input, numbers_of_pages, i, FINAL_DATA, outcomes, response, calls>>

\* A page whose records come out last post first.
page_posts_reversed(posts) ==
    [k \in 1..Len(posts) |-> record_of(posts[Len(posts) + 1 - k])]

\* ALL_PAGE_POSTS for one page.
page_posts(posts) == [k \in 1..Len(posts) |-> record_of(posts[k])]

\* A loop body that also writes the records assembled so far to the file.
PageDone_checkpoint ==
    /\ pc = "page"
    /\ ~IsNone(response)
    /\ response.json
    /\ log' = log \cup {"success: status_code"}
    /\ FINAL_DATA' = FINAL_DATA \o page_posts(response.posts)
    /\ file' = json_dump(List(FINAL_DATA'))
    /\ saves' = saves + 1
    /\ i' = i + 1
    /\ outcomes' = <<>>
    /\ response' = NoResponse
    /\ pc' = "loop"
    /\ UNCHANGED <<parse_vars, run, file_at_start, existing_data, crawled_data, final_output, raised,
                   user_input, numbers_of_pages, calls, failed_page>>

\* get_data: the rest of the loop body for a page of posts. The response and
\* its attempts are forgotten here: the next iteration replaces them before
\* anything reads them.
PageDone ==
    /\ pc = "page"
    /\ ~IsNone(response)
    /\ response.json
    /\ log' = log \cup {"success: status_code"}
    /\ FINAL_DATA' = FINAL_DATA \o page_posts(response.posts)
    /\ i' = i + 1
    /\ outcomes' = <<>>
    /\ response' = NoResponse
    /\ pc' = "loop"
    /\ UNCHANGED <<parse_vars, run, file, file_at_start, main_vars, user_input, numbers_of_pages,
                   calls, failed_page>>

\* get_data: return FINAL_DATA.
ReturnFinalData ==
    /\ pc = "loop"
    /\ i >= numbers_of_pages
    /\ crawled_data' = List(FINAL_DATA)
    /\ pc' = "branch"
    /\ UNCHANGED <<parse_vars, run, file, file_at_start, existing_data, final_output, saves, raised,
                   crawl_vars, log>>
RECURSIVE Distinct(_)
\* The list without the repeats of its items.
Distinct(s) ==
    IF s = <<>> THEN <<>>
    ELSE LET front == Distinct(SubSeq(s, 1, Len(s) - 1))
         IN IF Contains(front, s[Len(s)]) THEN front ELSE Append(front, s[Len(s)])

\* An else branch that merges the crawl into an empty list.
passthrough_deduplicated(crawled) ==
    IF crawled.kind = "array" THEN List(Distinct(crawled.data)) ELSE crawled

\* main: the argument of save_to_json in the else branch.
passthrough(crawled) == crawled

\* main: `if existing_data:` holds and crawled_data is a list. compare_data
\* appends to the list it is given and returns that list, so after the call
\* existing_data and final_output are the same, grown list.
Merge ==
    /\ pc = "branch"
    /\ Truthy(existing_data)
    /\ crawled_data.kind = "array"
    /\ final_output' = List(compare_data(existing_data.data, crawled_data.data))
    /\ existing_data' = final_output'
    /\ log' = log \cup (IF \E k \in 1..Len(crawled_data.data) :
                              ~Contains(existing_data.data, crawled_data.data[k])
                        THEN {"success: NEW POST FOUND"} ELSE {})
    /\ pc' = "save"
    /\ UNCHANGED <<parse_vars, run, file, file_at_start, crawled_data, saves, raised,
                   crawl_vars>>

\* main: `if existing_data:` holds and crawled_data is None: `for item in
\* crawled_data` raises TypeError, which nothing catches.
MergeRaises ==
    /\ pc = "branch"
    /\ Truthy(existing_data)
    /\ crawled_data.kind = "none"
    /\ raised' = "TypeError"
    /\ pc' = "crashed"
    /\ UNCHANGED <<parse_vars, run, file, file_at_start, existing_data, crawled_data, final_output,
                   saves, crawl_vars, log>>

\* main: the else branch, for existing_data None or empty.
Passthrough ==
    /\ pc = "branch"
    /\ ~Truthy(existing_data)
    /\ final_output' = passthrough(crawled_data)
    /\ pc' = "save"
    /\ UNCHANGED <<parse_vars, run, file, file_at_start, existing_data, crawled_data, saves, raised,
                   crawl_vars, log>>

\* save_to_json(data); the output directory exists, so open() succeeds.
SaveToJson ==
    /\ pc = "save"
    /\ file' = json_dump(final_output)
    /\ saves' = saves + 1
    /\ log' = log \cup {"success: OUTPUT FILE CREATED"}
    /\ pc' = "done"
    /\ UNCHANGED <<parse_vars, run, file_at_start, existing_data, crawled_data, final_output, raised,
                   crawl_vars>>

\* The program is started again.
NextRun ==
    /\ pc \in {"done", "crashed"}
    /\ run < MaxRuns
    /\ run' = run + 1
    /\ file_at_start' = file
    /\ pc' = "read"
    /\ existing_data' = None
    /\ crawled_data' = None
    /\ final_output' = None
    /\ user_input' = NoInput
    /\ numbers_of_pages' = 0
    /\ i' = 0
    /\ FINAL_DATA' = <<>>
    /\ outcomes' = <<>>
    /\ response' = NoResponse
    /\ calls' = <<>>
    /\ failed_page' = -1
    /\ log' = {}
    /\ saves' = 0
    /\ raised' = "none"
    /\ UNCHANGED <<parse_vars, file>>

\* One run of main, with every input and every outcome of an attempt.
Next ==
    \/ ReadJsonFile
    \/ Prompt(Inputs)
    \/ CallGetResponse
    \/ Attempt(Failures)
    \/ GiveUp
    \/ PageFails
    \/ PageDone
    \/ ReturnFinalData
    \/ Merge
    \/ MergeRaises
    \/ Passthrough
    \/ SaveToJson

Spec == Init /\ [][Next]_vars

\* Run after run of main on the same file, with a typed page count and a
\* server that answers 200 or 503.
NextRuns ==
    \/ ReadJsonFile
    \/ Prompt(TypedCounts)
    \/ CallGetResponse
    \/ Attempt({Response(503, FALSE, <<>>)})
    \/ GiveUp
    \/ PageFails
    \/ PageDone
    \/ ReturnFinalData
    \/ Merge
    \/ MergeRaises
    \/ Passthrough
    \/ SaveToJson
    \/ NextRun

SpecRuns == Init /\ [][NextRuns]_vars

(* parse_content on its own, for every body of RawContents. *)

InitParse ==
    /\ pc = "parse_table"
    /\ raw_content \in RawContents
    /\ final_result = <<>>
    /\ run = 1
    /\ file = Absent
    /\ file_at_start = Absent
    /\ existing_data = None
    /\ crawled_data = None
    /\ final_output = None
    /\ user_input = NoInput
    /\ numbers_of_pages = 0
    /\ i = 0
    /\ FINAL_DATA = <<>>
    /\ outcomes = <<>>
    /\ response = NoResponse
    /\ calls = <<>>
    /\ failed_page = -1
    /\ log = {}
    /\ saves = 0
    /\ raised = "none"

not_parse_vars == <<run, file, file_at_start, main_vars, crawl_vars, log>>

\* parse_content: the try block around the table rendering.
TryTable ==
    /\ pc = "parse_table"
    /\ final_result' = final_result \o TablePrefix(raw_content)
    /\ pc' = "parse_text"
    /\ UNCHANGED <<raw_content, not_parse_vars>>

\* parse_content: the text of the body without its first table.
ExtractText ==
    /\ pc = "parse_text"
    /\ final_result' = final_result \o cleaned_text(raw_content)
    /\ pc' = "parsed"
    /\ UNCHANGED <<raw_content, not_parse_vars>>

NextParse == TryTable \/ ExtractText

SpecParse == InitParse /\ [][NextParse]_vars
(* ------------------------------- claims -------------------------------- *)

\* main has called get_data and got its result.
CrawlEnded == pc \in {"branch", "save", "done", "crashed"}

\* The run took the merge branch and compare_data returned.
Merged == pc \in {"save", "done"} /\ Truthy(existing_data)

\* The list main read from the file at the start of the run: existing_data
\* as it was before compare_data appended to it.
existing_before == read_json_file(file_at_start).data

\* Position of the first occurrence of x in s.
FirstIndex(s, x) == CHOOSE k \in 1..Len(s) : s[k] = x /\ \A j \in 1..(k - 1) : s[j] # x

\* C1: over any sequence of runs from an absent or duplicate-free file, the
\* file never holds two records equal in title and content.
C1_NoIdenticalRecordsInFile == NoDuplicates(file.data)

\* C2: every record existing_data held when compare_data was called is in
\* its result (which is existing_data itself, grown), and every record the
\* file held before a run that merges is in the file after it.
C2_MergeKeepsExisting ==
    /\ Merged =>
          /\ existing_data = final_output
          /\ \A k \in 1..Len(existing_before) :
                Contains(final_output.data, existing_before[k])
    /\ (pc = "done" /\ Truthy(existing_data)) =>
          /\ file.kind = "array"
          /\ \A k \in 1..Len(file_at_start.data) :
                Contains(file.data, file_at_start.data[k])

\* A second run merged into a file holding a repeated record and added a
\* record to it.
C2_Witness ==
    /\ pc = "done"
    /\ run = 2
    /\ Truthy(existing_data)
    /\ ~NoDuplicates(file_at_start.data)
    /\ Len(file.data) > Len(file_at_start.data)

\* C3: compare_data's result is existing_data as it was passed in, unchanged
\* as a prefix, then the crawled records that it did not hold, each once, in
\* the order of their first occurrence in crawled_data.
C3_OrderPreserved ==
    Merged =>
        LET e == existing_before
            c == crawled_data.data
            res == final_output.data
            added == SubSeq(res, Len(e) + 1, Len(res))
        IN /\ Len(res) >= Len(e)
           /\ SubSeq(res, 1, Len(e)) = e
           /\ Range(added) = Range(c) \ Range(e)
           /\ NoDuplicates(added)
           /\ \A a, b \in 1..Len(added) :
                 a < b => FirstIndex(c, added[a]) < FirstIndex(c, added[b])

\* A merge into a file of two records that added two records.
C3_Witness ==
    /\ pc = "save"
    /\ Truthy(existing_data)
    /\ Len(existing_before) = 2
    /\ Len(final_output.data) = 4
    /\ existing_data = final_output

\* C4: merging the same crawl result into compare_data's result a second time
\* returns that result unchanged.
C4_MergeIdempotent ==
    Merged => compare_data(final_output.data, crawled_data.data) = final_output.data

\* A merge whose first application added a record.
C4_Witness ==
    /\ pc = "save"
    /\ Truthy(existing_data)
    /\ Len(final_output.data) > Len(existing_before)
    /\ \E k \in 1..Len(crawled_data.data) : Contains(existing_before, crawled_data.data[k])

\* C5: when there is no file and the crawl returns a list, save_to_json is
\* given that list as it is, and the file holds it.
C5_AbsentStorePassthrough ==
    (file_at_start.kind = "absent" /\ crawled_data.kind = "array") =>
        /\ pc \in {"save", "done"} => final_output = crawled_data
        /\ pc = "done" => file = [kind |-> "array", data |-> crawled_data.data]

\* A run without a file saved a crawl that holds the same record twice.
C5_Witness ==
    /\ pc = "done"
    /\ file_at_start.kind = "absent"
    /\ crawled_data.kind = "array"
    /\ Len(crawled_data.data) = 2
    /\ ~NoDuplicates(crawled_data.data)
\* No attempt of the current call of get_response returned status 200.
NoAttemptSucceeded ==
    \A k \in 1..Len(outcomes) : outcomes[k].exc \/ outcomes[k].status_code # 200

\* C6: when no attempt returns 200, get_response makes exactly 3 attempts and
\* then returns None: no 4th attempt, and no None before the 3rd.
C6_RetryExhaustion ==
    /\ Len(outcomes) <= 3
    /\ (pc = "get" /\ Len(outcomes) = 3) =>
          /\ ~ENABLED Attempt(Failures)
          /\ ENABLED GiveUp
    /\ (pc = "get" /\ Len(outcomes) < 3) => ~ENABLED GiveUp
    /\ (pc = "page" /\ IsNone(response)) =>
          /\ Len(outcomes) = 3
          /\ NoAttemptSucceeded
          /\ response = NoResponse

\* get_response returned None after three responses of status 503.
C6_Witness ==
    /\ pc = "page"
    /\ IsNone(response)
    /\ Len(outcomes) = 3
    /\ \A k \in 1..3 : ~outcomes[k].exc /\ outcomes[k].status_code = 503

\* C7: when get_data returned None and the file held records, the run ends
\* without a save, without an exception leaving main, and with the file as
\* it was.
C7_FailedCrawlEndsQuietly ==
    (CrawlEnded /\ crawled_data.kind = "none" /\ Truthy(existing_data)) =>
        /\ saves = 0
        /\ file = file_at_start
        /\ raised = "none"

\* C8: when get_response returns None for page k, get_data returns None and
\* not the records of the pages before k, logs the error, has called
\* get_response for pages 0..k only, and returns to main.
C8_FetchFailureFailsCrawl ==
    (CrawlEnded /\ failed_page >= 0) =>
        /\ crawled_data = None
        /\ "error: IN GET_DATA" \in log
        /\ Len(calls) = failed_page + 1
        /\ \A k \in 1..Len(calls) : calls[k] = 10 * (k - 1)
        /\ pc = "branch" => raised = "none"

\* The fetch of page 1 of three failed after page 0 had given a record.
C8_Witness ==
    /\ pc = "branch"
    /\ failed_page = 1
    /\ numbers_of_pages > 2
    /\ FINAL_DATA # <<>>

\* C9: the file, once written, holds a JSON array; a failed crawl never
\* leaves null in it.
C9_FileHoldsArray == file.kind \in {"absent", "array"}

\* C10: with empty or non-integer input at the prompt and every fetch
\* succeeding, get_data calls get_response exactly 5 times, with offsets
\* 0, 10, 20, 30, 40 in that order.
C10_DefaultPageCount ==
    (/\ CrawlEnded
     /\ ~user_input.eof
     /\ user_input.text \in {<<>>, <<"a">>, <<FS, "1">>}
     /\ crawled_data.kind = "array") =>
        calls = <<0, 10, 20, 30, 40>>

\* A crawl after the input "a" returned its list, one fetch having needed a
\* retry.
C10_Witness ==
    /\ pc = "branch"
    /\ user_input = Typed(<<"a">>)
    /\ crawled_data.kind = "array"
    /\ Len(crawled_data.data) = 2
    /\ "warning: Received status code" \in log
\* C13: whatever the attempts bring, get_response makes at most 3 of them,
\* exceptions included; it returns the response of the first attempt with
\* status 200 and makes no attempt after it; it returns None exactly when
\* none of the 3 attempts had status 200.
C13_BoundedRetry ==
    /\ Len(outcomes) <= 3
    /\ \A k \in 1..Len(outcomes) :
          (~outcomes[k].exc /\ outcomes[k].status_code = 200) =>
              /\ k = Len(outcomes)
              /\ pc # "get"
              /\ response = outcomes[k]
    /\ pc = "page" =>
          /\ ~ENABLED Attempt(Failures)
          /\ IsNone(response) <=> (Len(outcomes) = 3 /\ NoAttemptSucceeded)
          /\ ~IsNone(response) => response.status_code = 200
    /\ (pc = "get" /\ Len(outcomes) < 3) => ENABLED Attempt(Failures)

\* get_response returned a response on the third attempt, after an exception
\* and a 503.
C13_Witness ==
    /\ pc = "page"
    /\ ~IsNone(response)
    /\ Len(outcomes) = 3
    /\ outcomes[1].exc
    /\ outcomes[2].status_code = 503
    /\ response.posts # <<>>
\* The k-th attempt of the current call brought a status that is neither 200
\* nor in the retry list.
UnlistedStatus(k) ==
    /\ ~outcomes[k].exc
    /\ outcomes[k].status_code # 200
    /\ outcomes[k].status_code \notin retryable_codes

\* C18: a response with a status outside 200 and the retry list (400) is not
\* returned and does not end get_response: it uses up one of the 3 attempts,
\* and get_response returns None when all 3 end that way.
C18_UnlistedStatusRetried ==
    /\ \A k \in 1..Len(outcomes) :
          UnlistedStatus(k) =>
              /\ response # outcomes[k]
              /\ k <= 3
              /\ (k = Len(outcomes) /\ k < 3) =>
                    /\ pc = "get"
                    /\ ENABLED Attempt(Failures)
                    /\ ~ENABLED GiveUp
              /\ (k = Len(outcomes) /\ k = 3 /\ pc = "get") =>
                    /\ ~ENABLED Attempt(Failures)
                    /\ ENABLED GiveUp
    /\ (pc = "page" /\ Len(outcomes) = 3 /\ \A k \in 1..3 : UnlistedStatus(k)) =>
          response = NoResponse

\* get_response returned None after three responses of status 400.
C18_Witness ==
    /\ pc = "page"
    /\ IsNone(response)
    /\ Len(outcomes) = 3
    /\ \A k \in 1..3 : ~outcomes[k].exc /\ outcomes[k].status_code = 400
\* C17: compare_data tests each crawled record against the list as grown so
\* far: called with an existing_data without repeated records it returns a
\* list without repeated records, also when crawled_data repeats a record.
C17_MergeAddsNoDuplicates ==
    (Merged /\ NoDuplicates(existing_before)) => NoDuplicates(final_output.data)

\* A merge into a list without repeats of a crawl that brought the same new
\* record twice.
C17_Witness ==
    /\ pc = "save"
    /\ Truthy(existing_data)
    /\ NoDuplicates(existing_before)
    /\ Len(crawled_data.data) = 2
    /\ crawled_data.data[1] = crawled_data.data[2]
    /\ ~Contains(existing_before, crawled_data.data[1])
    /\ Len(final_output.data) = Len(existing_before) + 1
\* The order of the stages of a run: read, crawl, merge or passthrough, save.
StageOrder ==
    {<<"read", "prompt">>, <<"prompt", "loop">>, <<"loop", "get">>, <<"get", "page">>,
     <<"page", "loop">>, <<"page", "branch">>, <<"loop", "branch">>,
     <<"branch", "save">>, <<"branch", "crashed">>, <<"save", "done">>,
     <<"done", "read">>, <<"crashed", "read">>}

\* C15: a run writes the file at most once, as its last step after the crawl
\* has ended and the merge or passthrough is done; until then, and in a run
\* that ends without saving, the file is as the run found it.
C15_SingleFinalWrite ==
    /\ [](/\ saves <= 1
          /\ saves = 1 <=> pc = "done"
          /\ pc # "done" => file = file_at_start)
    /\ [][/\ pc' # pc => <<pc, pc'>> \in StageOrder
          /\ file' # file => (pc = "save" /\ pc' = "done" /\ CrawlEnded)
          /\ saves' > saves => (pc = "save" /\ pc' = "done")]_vars

\* A second run saved a changed file after a crawl of two pages.
C15_Witness ==
    /\ run = 2
    /\ pc = "done"
    /\ saves = 1
    /\ Len(calls) = 2
    /\ file_at_start.kind = "array"
    /\ file # file_at_start
\* C16: in a crawl of n pages whose fetches all succeed, get_response is
\* called once per page index 0..n-1 with offset 10*index, in ascending
\* order, and the result holds one record per post, page after page and post
\* after post, none dropped, repeated or moved.
C16_CrawlOrder ==
    /\ [](/\ \A k \in 1..Len(calls) : calls[k] = 10 * (k - 1)
          /\ (CrawlEnded /\ crawled_data.kind = "array") =>
                /\ Len(calls) = (IF numbers_of_pages > 0 THEN numbers_of_pages ELSE 0)
                /\ crawled_data.data = FINAL_DATA)
    /\ [][/\ (pc = "loop" /\ pc' = "get") => (Len(calls') = i + 1 /\ i < numbers_of_pages)
          /\ (pc = "page" /\ pc' = "loop") =>
                /\ i' = i + 1
                /\ Len(FINAL_DATA') = Len(FINAL_DATA) + Len(response.posts)
                /\ \A k \in 1..Len(FINAL_DATA) : FINAL_DATA'[k] = FINAL_DATA[k]
                /\ \A k \in 1..Len(response.posts) :
                      FINAL_DATA'[Len(FINAL_DATA) + k] =
                          [title |-> response.posts[k].title,
                           content |-> parse_content(response.posts[k].content)]
          /\ pc \notin {"page", "prompt", "done", "crashed"} => FINAL_DATA' = FINAL_DATA]_vars

\* A crawl of two pages returned two different records.
C16_Witness ==
    /\ pc = "branch"
    /\ numbers_of_pages = 2
    /\ calls = <<0, 10>>
    /\ crawled_data.kind = "array"
    /\ Len(crawled_data.data) = 2
    /\ crawled_data.data[1] # crawled_data.data[2]
\* p is the beginning of s.
StartsWith(s, p) == Len(p) <= Len(s) /\ SubSeq(s, 1, Len(p)) = p

\* frag occurs in s.
Occurs(frag, s) ==
    \E k \in 0..(Len(s) - Len(frag)) : SubSeq(s, k + 1, k + Len(frag)) = frag

\* The body given to parse_content holds a table whose first column has a
\* text label and whose cells are all text.
TextTable ==
    /\ raw_content.tables # <<>>
    /\ raw_content.tables[1].header[1].str
    /\ \A r \in 1..Len(raw_content.tables[1].rows) :
          \A c \in 1..Len(raw_content.tables[1].header) :
              raw_content.tables[1].rows[r][c].str

\* The claim as stated: for a body with a table of text cells with at least
\* one data row, the output starts with a rendering whose heading is the
\* label of the table's first column and which holds the trimmed text of
\* every cell.
C11_TrimmedCellsPresent ==
    (pc \in {"parse_text", "parsed"} /\ TextTable /\ raw_content.tables[1].rows # <<>>) =>
        LET table == raw_content.tables[1]
        IN /\ StartsWith(final_result, <<"#", " ">> \o table.header[1].text \o <<" ", " ">>)
           /\ \A r \in 1..Len(table.rows) :
                 \A c \in 1..Len(table.header) :
                     Occurs(<<"-", " ">> \o strip(table.rows[r][c].text), final_result)

\* C11: for a body with a table of text cells with at least one data row,
\* the output starts with a rendering whose heading is the label of the
\* table's first column and which holds, as a list item, the words of every
\* cell: its text without the whitespace around it and with every run of
\* whitespace inside it replaced by one blank.
C11_TableRoundTrip ==
    (pc \in {"parse_text", "parsed"} /\ TextTable /\ raw_content.tables[1].rows # <<>>) =>
        LET table == raw_content.tables[1]
        IN /\ StartsWith(final_result, <<"#", " ">> \o table.header[1].text \o <<" ", " ">>)
           /\ \A r \in 1..Len(table.rows) :
                 \A c \in 1..Len(table.header) :
                     /\ Occurs(<<"-", " ">> \o ParagraphText(table.rows[r][c].text),
                               final_result)
                     /\ \A k \in 1..Len(split(table.rows[r][c].text)) :
                           Occurs(split(table.rows[r][c].text)[k], final_result)

\* parse_content returned for a table of two columns and two rows, one cell
\* holding a tab between two words, followed by text.
C11_Witness ==
    /\ pc = "parsed"
    /\ TextTable
    /\ Len(raw_content.tables[1].header) = 2
    /\ Len(raw_content.tables[1].rows) = 2
    /\ raw_content.tables[1].rows[1][1] # raw_content.tables[1].rows[2][2]
    /\ Occurs(<<"\t">>, raw_content.tables[1].rows[2][2].text)
    /\ raw_content.text # <<>>

\* The rendering with one list block per data row, each holding the row's
\* trimmed cells in column order.
RowBlocks(table) ==
    JoinWith(<<"\n", "\n">>,
             <<<<"#", " ">> \o table.header[1].text>> \o
             [r \in 1..Len(table.rows) |->
                 JoinWith(<<"\n">>,
                          [c \in 1..Len(table.header) |->
                              <<"-", " ">> \o strip(table.rows[r][c].text)])])

\* C12: for a table of R data rows and C columns the rendering is the
\* heading followed by R list blocks, the block of row r holding the C
\* trimmed cells of row r in column order and no cell of another row.
C12_OneBlockPerRow ==
    (pc = "parse_text" /\ TextTable) =>
        final_result =
            [k \in 1..Len(RowBlocks(raw_content.tables[1])) |->
                IF RowBlocks(raw_content.tables[1])[k] = "\n"
                THEN " " ELSE RowBlocks(raw_content.tables[1])[k]]

\* C14: when the table rendering fails (no table, a first label that is no
\* text, a cell that is no text), nothing of a rendering is in the output:
\* the output is the cleaned text alone, and the empty string for an empty
\* body.
C14_FailedTableLeavesNoPrefix ==
    (pc \in {"parse_text", "parsed"} /\ ~TextTable) =>
        /\ pc = "parse_text" => final_result = <<>>
        /\ pc = "parsed" =>
              /\ final_result =
                    [k \in 1..Len(strip(raw_content.text)) |->
                        IF strip(raw_content.text)[k] = "\n"
                        THEN " " ELSE strip(raw_content.text)[k]]
              /\ ~Occurs(<<"#">>, final_result)
              /\ raw_content.text = <<>> => Str(final_result) = ""

\* parse_content returned for a table whose heading and first row are text
\* and whose second row holds a cell that is not.
C14_Witness ==
    /\ pc = "parsed"
    /\ raw_content.tables # <<>>
    /\ raw_content.tables[1].header[1].str
    /\ Len(raw_content.tables[1].rows) = 2
    /\ \A c \in 1..Len(raw_content.tables[1].header) : raw_content.tables[1].rows[1][c].str
    /\ \E c \in 1..Len(raw_content.tables[1].header) : ~raw_content.tables[1].rows[2][c].str
    /\ raw_content.text # <<>>
    /\ final_result # <<>>
====
